---- MODULE Spec2Model ----
(***************************************************************************)
(* SIREN report engine (src/src/report_engine.py): the IncidentReport      *)
(* aggregate, its builder methods, the severity score and to_dict.         *)
(*                                                                         *)
(* Representation.                                                         *)
(*  - Strings the code only stores and echoes (descriptions, IOC values,   *)
(*    host names, severity, title, created_at) are TLA+ strings.           *)
(*  - Strings the code looks into are tuples of one-character strings:     *)
(*    timestamps (compared as strings by the sort), recommendations        *)
(*    (stripped) and incident ids (built from parts, upper-cased).         *)
(*  - Scores are integers in hundredths: 2.75 is 275.  Every quantity of   *)
(*    the score is a multiple of 0.25, exact both in binary floating point *)
(*    and in hundredths.                                                   *)
(*  - ret is the value returned by the last call (None for the builders),  *)
(*    calls records the arguments of the builder calls in call order and   *)
(*    ctor the arguments given to the constructor; the code reads none of  *)
(*    the three.                                                           *)
(***************************************************************************)
EXTENDS Integers, Sequences, FiniteSets

VARIABLES report, ret, calls, ctor

vars == <<report, ret, calls, ctor>>

-----------------------------------------------------------------------------
(* Bounds of the model *)

MaxCalls == 4

MaxScoreIocs == 7

MaxScoreSystems == 5

MaxScoreOther == 1

-----------------------------------------------------------------------------
(* Characters and strings *)

Min(a, b) == IF a <= b THEN a ELSE b

\* Code point of a character (those the timestamps of the model use).
Ord(c) ==
  CASE c = " " -> 32 [] c = "-" -> 45
    [] c = "0" -> 48 [] c = "1" -> 49 [] c = "2" -> 50 [] c = "3" -> 51
    [] c = "4" -> 52 [] c = "5" -> 53 [] c = "6" -> 54 [] c = "7" -> 55
    [] c = "8" -> 56 [] c = "9" -> 57 [] c = ":" -> 58

\* Python's str < str: lexicographic by code point, a proper prefix is smaller.
StrLess(a, b) ==
  \E k \in 1..(Min(Len(a), Len(b)) + 1) :
    /\ \A i \in 1..(k - 1) : a[i] = b[i]
    /\ \/ k > Len(a) /\ k <= Len(b)
       \/ k <= Len(a) /\ k <= Len(b) /\ Ord(a[k]) < Ord(b[k])

isspace(c) == c \in {" ", "\t", "\n", "\r"}

RECURSIVE lstrip(_)
lstrip(s) ==
  IF s # <<>> /\ isspace(Head(s)) THEN lstrip(Tail(s)) ELSE s

RECURSIVE rstrip(_)
rstrip(s) ==
  IF s # <<>> /\ isspace(s[Len(s)]) THEN rstrip(SubSeq(s, 1, Len(s) - 1)) ELSE s

\* str.strip(): leading and trailing whitespace removed.
strip(s) == rstrip(lstrip(s))

\* str.upper() on one character of a hexadecimal digest.
upper_char(c) ==
  CASE c = "a" -> "A" [] c = "b" -> "B" [] c = "c" -> "C"
    [] c = "d" -> "D" [] c = "e" -> "E" [] c = "f" -> "F"
    [] OTHER -> c

upper(s) == [i \in 1..Len(s) |-> upper_char(s[i])]

-----------------------------------------------------------------------------
(* Inputs *)

SEVERITY_WEIGHTS ==
  [s \in {"Low", "Medium", "High", "Critical"} |->
     CASE s = "Low" -> 1 [] s = "Medium" -> 2 [] s = "High" -> 3
       [] s = "Critical" -> 4]

\* The four levels and one value the table does not know.
Severities == DOMAIN SEVERITY_WEIGHTS \cup {"Sev1"}

SpecSeverities == {"Medium", "Critical", "Sev1"}

\* utcnow(): the date part of the id and the created_at stamp.
Clock ==
  {[ymd |-> <<"2", "0", "2", "5", "0", "2", "1", "1">>,
    stamp |-> "2025-02-11 09:30:00 UTC"]}

\* sha256(...).hexdigest(), its first characters: lower-case hexadecimal.
HexDigests ==
  {<<"a", "3", "f", "7", "0", "c">>, <<"0", "0", "4", "2", "9", "9">>}

WellFormedId ==
  <<"I", "R", "-", "2", "0", "2", "4", "0", "1", "0", "1", "-",
    "B", "E", "E", "F">>

MalformedId == <<"I", "N", "C", "-", "7">>

\* incident_id as given to the constructor; <<>> is the default, "".
IncidentIdArgs == {<<>>, WellFormedId, MalformedId}

CreatedAtArgs == {"", "2024-01-01 00:00:00 UTC"}

\* "10" sorts before "9" as a string.
TimelineInputs ==
  {[timestamp |-> <<"9">>, description |-> "Initial alert", source |-> "EDR"],
   [timestamp |-> <<"1", "0">>, description |-> "Host isolated", source |-> ""],
   [timestamp |-> <<"1", "0">>, description |-> "Ticket opened", source |-> "SOC"]}

IocInputs ==
  {[ioc_type |-> "IP Address", value |-> "203.0.113.7", context |-> "C2"],
   [ioc_type |-> "Domain", value |-> "evil.example", context |-> ""]}

SystemInputs ==
  {[hostname |-> "ws01", ip_address |-> "10.0.0.7", impact |-> "encrypted"],
   [hostname |-> "dc01", ip_address |-> "10.0.0.1", impact |-> ""]}

RecommendationInputs ==
  {<<>>, <<" ", "\t">>, <<" ", "a", " ", "b", " ">>, <<"c">>}

-----------------------------------------------------------------------------
(* Construction *)

\* The digest letters left in lower case.
_generate_incident_id_lower(now, digest) ==
  <<"I", "R", "-">> \o now.ymd \o <<"-">> \o SubSeq(digest, 1, 4)

_generate_incident_id(now, digest) ==
  <<"I", "R", "-">> \o now.ymd \o <<"-">> \o upper(SubSeq(digest, 1, 4))

\* The id generated whether or not one was given.
post_init_incident_id_always(given, now, digest) ==
  <<"I", "R", "-">> \o now.ymd \o <<"-">> \o upper(SubSeq(digest, 1, 4))

post_init_incident_id(given, now, digest) ==
  IF given = <<>> THEN _generate_incident_id(now, digest) ELSE given

post_init_created_at(given, now) ==
  IF given = "" THEN now.stamp ELSE given

\* IncidentReport(title, severity, incident_id, created_at): the dataclass
\* __init__ followed by __post_init__.
Construct(title, sev, id_arg, created_arg, now, digest) ==
  /\ report = [title |-> title,
               severity |-> sev,
               category |-> "Other",
               analyst |-> "",
               description |-> "",
               detection_date |-> "",
               containment_date |-> "",
               eradication_date |-> "",
               recovery_date |-> "",
               executive_summary |-> "",
               incident_id |-> post_init_incident_id(id_arg, now, digest),
               created_at |-> post_init_created_at(created_arg, now),
               timeline_events |-> <<>>,
               iocs |-> <<>>,
               affected_systems |-> <<>>,
               recommendations |-> <<>>]
  /\ ret = [kind |-> "None"]
  /\ calls = [timeline |-> <<>>, iocs |-> <<>>, systems |-> <<>>, recs |-> <<>>]
  /\ ctor = [incident_id |-> id_arg, created_at |-> created_arg]

Init ==
  \E sev \in SpecSeverities, id_arg \in IncidentIdArgs,
     created_arg \in CreatedAtArgs, now \in Clock, digest \in HexDigests :
    Construct("Qakbot infection", sev, id_arg, created_arg, now, digest)

-----------------------------------------------------------------------------
(* Builder methods *)

\* An unstable sort: an element goes before the elements of equal key.
RECURSIVE sort_insert_before_ties(_, _)
sort_insert_before_ties(sorted, e) ==
  IF sorted = <<>> THEN <<e>>
  ELSE IF ~StrLess(Head(sorted).timestamp, e.timestamp)
       THEN <<e>> \o sorted
       ELSE <<Head(sorted)>> \o sort_insert_before_ties(Tail(sorted), e)

\* list.sort(key=lambda e: e.timestamp) is stable: an element goes after
\* every element whose key is not greater than its own.
RECURSIVE sort_insert(_, _)
sort_insert(sorted, e) ==
  IF sorted = <<>> THEN <<e>>
  ELSE IF StrLess(e.timestamp, Head(sorted).timestamp)
       THEN <<e>> \o sorted
       ELSE <<Head(sorted)>> \o sort_insert(Tail(sorted), e)

RECURSIVE sort_by_timestamp(_)
sort_by_timestamp(events) ==
  IF events = <<>> THEN <<>>
  ELSE sort_insert(sort_by_timestamp(SubSeq(events, 1, Len(events) - 1)),
                   events[Len(events)])

add_timeline_event(timestamp, description, source) ==
  LET event == [timestamp |-> timestamp, description |-> description,
                source |-> source]
  IN /\ report' = [report EXCEPT !.timeline_events =
                     sort_by_timestamp(Append(@, event))]
     /\ ret' = [kind |-> "None"]
     /\ calls' = [calls EXCEPT !.timeline = Append(@, event)]
     /\ UNCHANGED ctor

add_ioc(ioc_type, value, context) ==
  LET indicator == [ioc_type |-> ioc_type, value |-> value, context |-> context]
  IN /\ report' = [report EXCEPT !.iocs = Append(@, indicator)]
     /\ ret' = [kind |-> "None"]
     /\ calls' = [calls EXCEPT !.iocs = Append(@, indicator)]
     /\ UNCHANGED ctor

\* The list replaced by the new system instead of extended.
add_affected_system_overwrites(hostname, ip_address, impact) ==
  LET system == [hostname |-> hostname, ip_address |-> ip_address,
                 impact |-> impact]
  IN /\ report' = [report EXCEPT !.affected_systems = <<system>>]
     /\ ret' = [kind |-> "None"]
     /\ calls' = [calls EXCEPT !.systems = Append(@, system)]
     /\ UNCHANGED ctor

add_affected_system(hostname, ip_address, impact) ==
  LET system == [hostname |-> hostname, ip_address |-> ip_address,
                 impact |-> impact]
  IN /\ report' = [report EXCEPT !.affected_systems = Append(@, system)]
     /\ ret' = [kind |-> "None"]
     /\ calls' = [calls EXCEPT !.systems = Append(@, system)]
     /\ UNCHANGED ctor

\* The text tested stripped but appended as given.
add_recommendation_unstripped(recommendation) ==
  /\ report' = IF strip(recommendation) # <<>>
               THEN [report EXCEPT !.recommendations =
                       Append(@, recommendation)]
               ELSE report
  /\ ret' = [kind |-> "None"]
  /\ calls' = [calls EXCEPT !.recs = Append(@, recommendation)]
  /\ UNCHANGED ctor

add_recommendation(recommendation) ==
  /\ report' = IF strip(recommendation) # <<>>
               THEN [report EXCEPT !.recommendations =
                       Append(@, strip(recommendation))]
               ELSE report
  /\ ret' = [kind |-> "None"]
  /\ calls' = [calls EXCEPT !.recs = Append(@, recommendation)]
  /\ UNCHANGED ctor

-----------------------------------------------------------------------------
(* Severity scoring, in hundredths *)

\* SEVERITY_WEIGHTS.get(self.severity, 2)
base_severity(sev) ==
  IF sev \in DOMAIN SEVERITY_WEIGHTS THEN 100 * SEVERITY_WEIGHTS[sev] ELSE 200

\* min(len(self.iocs) * 0.5, 3)
ioc_factor(n_iocs) == Min(n_iocs * 50, 300)

\* min(len(self.affected_systems) * 0.75, 3)
system_factor(n_systems) == Min(n_systems * 75, 300)

critical_bonus(sev) == IF sev = "Critical" THEN 150 ELSE 0

raw_score(sev, n_iocs, n_systems) ==
  base_severity(sev) + ioc_factor(n_iocs) + system_factor(n_systems)
    + critical_bonus(sev)

\* Ties rounded up instead of to the even tenth.
round1_half_up(h) == 10 * ((h + 5) \div 10)

\* round(x, 1) on a non-negative float that is exact in hundredths: to the
\* nearest tenth, a tie (x.x5) to the even tenth.
round1(h) ==
  LET q == h \div 10
      r == h % 10
  IN IF r < 5 THEN 10 * q
     ELSE IF r > 5 THEN 10 * (q + 1)
     ELSE IF q % 2 = 0 THEN 10 * q ELSE 10 * (q + 1)

\* The score wrapped at 10 instead of capped.
normalized_score_wrapped(raw) ==
  LET q == (raw % 1000) \div 10
      r == (raw % 1000) % 10
  IN IF r < 5 \/ (r = 5 /\ q % 2 = 0) THEN 10 * q ELSE 10 * (q + 1)

\* The score left uncapped.
normalized_score_unclamped(raw) ==
  LET q == raw \div 10
      r == raw % 10
  IN IF r < 5 \/ (r = 5 /\ q % 2 = 0) THEN 10 * q ELSE 10 * (q + 1)

normalized_score(raw) == round1(Min(raw, 1000))

\* The thresholds taken as exclusive.
rating_of_strict(score) ==
  IF score > 800 THEN "CRITICAL"
  ELSE IF score > 600 THEN "HIGH"
  ELSE IF score > 400 THEN "MEDIUM"
  ELSE "LOW"

rating_of(score) ==
  IF score >= 800 THEN "CRITICAL"
  ELSE IF score >= 600 THEN "HIGH"
  ELSE IF score >= 400 THEN "MEDIUM"
  ELSE "LOW"

\* The dict calculate_severity_score returns for a report.
severity_score(r) ==
  LET sev == r.severity
      n_iocs == Len(r.iocs)
      n_systems == Len(r.affected_systems)
      score == normalized_score(raw_score(sev, n_iocs, n_systems))
  IN [score |-> score,
      rating |-> rating_of(score),
      breakdown |-> [base_severity |-> base_severity(sev),
                     ioc_factor |-> round1(ioc_factor(n_iocs)),
                     system_factor |-> round1(system_factor(n_systems)),
                     critical_bonus |-> critical_bonus(sev)]]

calculate_severity_score ==
  /\ ret' = [kind |-> "score", value |-> severity_score(report)]
  /\ UNCHANGED <<report, calls, ctor>>

-----------------------------------------------------------------------------
(* Serialization *)

TimelineEvent_to_dict(e) ==
  [timestamp |-> e.timestamp, description |-> e.description, source |-> e.source]

\* The value written under the type key.
IOC_to_dict_value_as_type(i) ==
  [type |-> i.value, value |-> i.value, context |-> i.context]

IOC_to_dict(i) ==
  [type |-> i.ioc_type, value |-> i.value, context |-> i.context]

AffectedSystem_to_dict(s) ==
  [hostname |-> s.hostname, ip_address |-> s.ip_address, impact |-> s.impact]

report_to_dict(r) ==
  [incident_id |-> r.incident_id,
   title |-> r.title,
   severity |-> r.severity,
   category |-> r.category,
   analyst |-> r.analyst,
   description |-> r.description,
   created_at |-> r.created_at,
   dates |-> [detection |-> r.detection_date,
              containment |-> r.containment_date,
              eradication |-> r.eradication_date,
              recovery |-> r.recovery_date],
   executive_summary |-> r.executive_summary,
   severity_score |-> severity_score(r),
   timeline |-> [k \in 1..Len(r.timeline_events) |->
                   TimelineEvent_to_dict(r.timeline_events[k])],
   iocs |-> [k \in 1..Len(r.iocs) |-> IOC_to_dict(r.iocs[k])],
   affected_systems |-> [k \in 1..Len(r.affected_systems) |->
                           AffectedSystem_to_dict(r.affected_systems[k])],
   recommendations |-> r.recommendations]

to_dict ==
  /\ ret' = [kind |-> "dict", value |-> report_to_dict(report)]
  /\ UNCHANGED <<report, calls, ctor>>

-----------------------------------------------------------------------------
(* Specifications *)

NCalls ==
  Len(calls.timeline) + Len(calls.iocs) + Len(calls.systems) + Len(calls.recs)

\* Any report, any interleaving of the calls, with all the inputs.
Next ==
  \/ /\ NCalls < MaxCalls
     /\ \E e \in TimelineInputs :
          add_timeline_event(e.timestamp, e.description, e.source)
  \/ /\ NCalls < MaxCalls
     /\ \E i \in IocInputs : add_ioc(i.ioc_type, i.value, i.context)
  \/ /\ NCalls < MaxCalls
     /\ \E s \in SystemInputs :
          add_affected_system(s.hostname, s.ip_address, s.impact)
  \/ /\ NCalls < MaxCalls
     /\ \E r \in RecommendationInputs : add_recommendation(r)
  \/ calculate_severity_score
  \/ to_dict

Spec == Init /\ [][Next]_vars

\* Every severity and enough IOCs and systems to pass both caps; the other
\* arguments are fixed.
ScoreInit ==
  \E sev \in Severities, now \in Clock :
    Construct("Qakbot infection", sev, <<>>, "", now,
              <<"a", "3", "f", "7", "0", "c">>)

ScoreNext ==
  \/ /\ Len(calls.timeline) < MaxScoreOther
     /\ add_timeline_event(<<"9">>, "Initial alert", "EDR")
  \/ /\ Len(calls.iocs) < MaxScoreIocs
     /\ add_ioc("IP Address", "203.0.113.7", "C2")
  \/ /\ Len(calls.systems) < MaxScoreSystems
     /\ add_affected_system("ws01", "10.0.0.7", "encrypted")
  \/ /\ Len(calls.recs) < MaxScoreOther
     /\ \E r \in {<<" ", "\t">>, <<"c">>} : add_recommendation(r)
  \/ calculate_severity_score
  \/ to_dict

ScoreSpec == ScoreInit /\ [][ScoreNext]_vars

-----------------------------------------------------------------------------
(* Vocabulary of the properties *)

score_of(r) == severity_score(r).score

Count(seq, x) == Cardinality({k \in DOMAIN seq : seq[k] = x})

\* Every value has the same number of occurrences in new as in old, except
\* added, which has one more.
OneMore(old, new, added) ==
  /\ Len(new) = Len(old) + 1
  /\ \A x \in {old[k] : k \in DOMAIN old} \cup {added} :
       Count(new, x) = Count(old, x) + (IF x = added THEN 1 ELSE 0)

IsBlank(s) == \A k \in DOMAIN s : s[k] \in {" ", "\t", "\n", "\r"}

\* The text between the first and the last non-whitespace character.
Trimmed(s) ==
  LET ink == {k \in DOMAIN s : s[k] \notin {" ", "\t", "\n", "\r"}}
  IN IF ink = {} THEN <<>>
     ELSE SubSeq(s, CHOOSE a \in ink : \A k \in ink : a <= k,
                    CHOOSE b \in ink : \A k \in ink : k <= b)

\* The tenth (in hundredths) nearest to h, the even one of two equally near.
NearestTenth(h) ==
  CHOOSE t \in {10 * k : k \in 0..120} :
    /\ t - h <= 5 /\ h - t <= 5
    /\ (t - h = 5 \/ h - t = 5) => (t \div 10) % 2 = 0

\* The score as the formula states it, from the severity and the two counts.
FormulaScore(sev, n, m) ==
  LET base == CASE sev = "Low" -> 100 [] sev = "Medium" -> 200
                [] sev = "High" -> 300 [] sev = "Critical" -> 400
                [] OTHER -> 200
      bonus == IF sev = "Critical" THEN 150 ELSE 0
  IN NearestTenth(Min(base + Min(50 * n, 300) + Min(75 * m, 300) + bonus, 1000))

IsDigit(c) == c \in {"0", "1", "2", "3", "4", "5", "6", "7", "8", "9"}

IsUpperHex(c) == IsDigit(c) \/ c \in {"A", "B", "C", "D", "E", "F"}

\* IR-<8 digits>-<4 upper-case hexadecimal characters>
MatchesIdFormat(id) ==
  /\ Len(id) = 16
  /\ SubSeq(id, 1, 3) = <<"I", "R", "-">>
  /\ \A k \in 4..11 : IsDigit(id[k])
  /\ id[12] = "-"
  /\ \A k \in 13..16 : IsUpperHex(id[k])

-----------------------------------------------------------------------------
(* Severity score: ScoreSpec *)

\* C1: every call of calculate_severity_score, for every severity (an
\* unrecognized one included) and every number of IOCs and systems, leaves the
\* report unchanged and returns the score of the formula (base 1/2/3/4, or 2
\* for an unrecognized severity, the two factors capped at 3, the bonus 1.5
\* for Critical only, capped at 10 and rounded to one decimal) with the rating
\* CRITICAL from 8, HIGH from 6, MEDIUM from 4, else LOW; Critical with no
\* IOCs and no systems gives 5.5 / MEDIUM.
C1_ScoreFormula ==
  [][ret'.kind = "score" =>
       LET v == ret'.value
       IN /\ report' = report
          /\ v.score = FormulaScore(report.severity, Len(report.iocs),
                                    Len(report.affected_systems))
          /\ v.rating = (IF v.score >= 800 THEN "CRITICAL"
                         ELSE IF v.score >= 600 THEN "HIGH"
                         ELSE IF v.score >= 400 THEN "MEDIUM" ELSE "LOW")
          /\ (report.severity = "Critical" /\ report.iocs = <<>>
                /\ report.affected_systems = <<>>)
               => v.score = 550 /\ v.rating = "MEDIUM"]_vars

\* An unrecognized severity with one IOC and one system: raw 3.25, score 3.2.
C1_Witness ==
  /\ ret.kind = "score"
  /\ report.severity = "Sev1"
  /\ Len(report.iocs) = 1 /\ Len(report.affected_systems) = 1
  /\ ret.value.score = 320 /\ ret.value.rating = "LOW"

\* C4: an add_ioc or add_affected_system call never lowers the score, and
\* add_timeline_event and add_recommendation leave it as it is.
C4_ScoreMonotone ==
  [][/\ (calls'.iocs # calls.iocs \/ calls'.systems # calls.systems)
          => score_of(report') >= score_of(report)
     /\ (calls'.timeline # calls.timeline \/ calls'.recs # calls.recs)
          => score_of(report') = score_of(report)
     /\ report'.severity = report.severity]_vars

\* Medium past the IOC cap, with one system: 2 + 3 + 0.75 = 5.75, score 5.8.
C4_Witness ==
  /\ ret.kind = "score"
  /\ report.severity = "Medium"
  /\ Len(report.iocs) = 7 /\ Len(report.affected_systems) = 1
  /\ Len(calls.timeline) = 1 /\ Len(report.recommendations) = 1
  /\ ret.value.score = 580

\* C5: the score is within 0..10; Critical with both factors at their caps
\* (raw 11.5) scores exactly 10.0, CRITICAL, and stays there as more IOCs and
\* systems are added.
C5_ScoreRange ==
  /\ score_of(report) \in 0..1000
  /\ ret.kind = "score" => ret.value.score \in 0..1000
  /\ (/\ report.severity = "Critical"
      /\ Len(report.iocs) >= 6
      /\ Len(report.affected_systems) >= 4)
       => /\ raw_score(report.severity, Len(report.iocs),
                       Len(report.affected_systems)) = 1150
          /\ score_of(report) = 1000
          /\ ret.kind = "score"
               => ret.value.score = 1000 /\ ret.value.rating = "CRITICAL"

\* One IOC and one system more than the caps need.
C5_Witness ==
  /\ ret.kind = "score"
  /\ report.severity = "Critical"
  /\ Len(report.iocs) = 7 /\ Len(report.affected_systems) = 5
  /\ ret.value.score = 1000 /\ ret.value.rating = "CRITICAL"

BreakdownSum(b) ==
  b.base_severity + b.ioc_factor + b.system_factor + b.critical_bonus

\* C10 as stated: whenever the uncapped sum is at most 10, the four returned
\* breakdown components add up to exactly the returned score.
C10_BreakdownAddsUp ==
  (/\ ret.kind = "score"
   /\ raw_score(report.severity, Len(report.iocs),
                Len(report.affected_systems)) <= 1000)
    => BreakdownSum(ret.value.breakdown) = ret.value.score

\* C10 amended: whenever the uncapped sum is at most 10, the components add up
\* to exactly the score, unless there are exactly 1 or 3 affected systems
\* (system_factor 0.75 or 2.25) and ioc_factor + critical_bonus is an odd
\* multiple of 0.5 (an odd number of IOCs below 6 without the bonus, or an
\* even or capped number with it); then they differ from it by exactly 0.1.
C10_BreakdownWithinTenth ==
  (/\ ret.kind = "score"
   /\ raw_score(report.severity, Len(report.iocs),
                Len(report.affected_systems)) <= 1000)
    => LET n == Len(report.iocs)
           m == Len(report.affected_systems)
           halfIoc == n < 6 /\ n % 2 = 1
           bonus == report.severity = "Critical"
           d == BreakdownSum(ret.value.breakdown) - ret.value.score
       IN IF m \in {1, 3} /\ (halfIoc # bonus)
          THEN d = 10 \/ d = -10
          ELSE d = 0

\* Medium, one IOC, one system: score 3.2, components 2 + 0.5 + 0.8 = 3.3.
C10_Witness ==
  /\ ret.kind = "score"
  /\ report.severity = "Medium"
  /\ Len(report.iocs) = 1 /\ Len(report.affected_systems) = 1
  /\ ret.value.score = 320
  /\ BreakdownSum(ret.value.breakdown) = 330

-----------------------------------------------------------------------------
(* Collections, serialization and identity: Spec *)

\* C2: after every add_timeline_event call, timeline_events is sorted
\* ascending by timestamp string, holds exactly the events added so far, and
\* events with equal timestamps are in the order they were added.
C2_TimelineSortedStable ==
  LET tl == report.timeline_events
      added == calls.timeline
  IN /\ Len(tl) = Len(added)
     /\ \A i, j \in DOMAIN tl :
          i < j => ~StrLess(tl[j].timestamp, tl[i].timestamp)
     /\ \A t \in {added[k].timestamp : k \in DOMAIN added} :
          LET At(e) == e.timestamp = t
          IN SelectSeq(tl, At) = SelectSeq(added, At)

\* "9" was added first and stands last; the two "10" keep their order.
C2_Witness ==
  /\ calls.timeline =
       <<[timestamp |-> <<"9">>, description |-> "Initial alert",
          source |-> "EDR"],
         [timestamp |-> <<"1", "0">>, description |-> "Ticket opened",
          source |-> "SOC"],
         [timestamp |-> <<"1", "0">>, description |-> "Host isolated",
          source |-> ""]>>
  /\ report.timeline_events =
       <<[timestamp |-> <<"1", "0">>, description |-> "Ticket opened",
          source |-> "SOC"],
         [timestamp |-> <<"1", "0">>, description |-> "Host isolated",
          source |-> ""],
         [timestamp |-> <<"9">>, description |-> "Initial alert",
          source |-> "EDR"]>>

\* C3: add_recommendation with an empty or whitespace-only string changes
\* nothing in the report and returns normally; with any other string it
\* appends exactly the trimmed text at the end and changes nothing else. So
\* recommendations never holds an empty or untrimmed string.
C3_RecommendationTrimmed ==
  /\ [][\A r \in RecommendationInputs :
          calls'.recs = Append(calls.recs, r) =>
            /\ ret'.kind = "None"
            /\ report' = IF IsBlank(r) THEN report
                         ELSE [report EXCEPT !.recommendations =
                                 Append(@, Trimmed(r))]]_vars
  /\ [](\A k \in DOMAIN report.recommendations :
          LET t == report.recommendations[k]
          IN t # <<>> /\ ~IsBlank(<<t[1]>>) /\ ~IsBlank(<<t[Len(t)]>>))

\* A whitespace-only call, then " a b ": only "a b" is kept.
C3_Witness ==
  /\ calls.recs = <<<<" ", "\t">>, <<" ", "a", " ", "b", " ">>, <<>>>>
  /\ report.recommendations = <<<<"a", " ", "b">>>>

\* C6: in the result of to_dict, 'iocs', 'affected_systems' and
\* 'recommendations' list exactly the accepted additions, once each, in
\* insertion order with every field kept, and 'timeline' lists exactly the
\* added events in the report's current order.
C6_ToDictRoundTrip ==
  ret.kind = "dict" =>
    LET d == ret.value
        NotBlank(r) == ~IsBlank(r)
        accepted == SelectSeq(calls.recs, NotBlank)
    IN /\ d.iocs = [k \in DOMAIN calls.iocs |->
                      [type |-> calls.iocs[k].ioc_type,
                       value |-> calls.iocs[k].value,
                       context |-> calls.iocs[k].context]]
       /\ d.affected_systems = calls.systems
       /\ d.recommendations = [k \in DOMAIN accepted |-> Trimmed(accepted[k])]
       /\ d.timeline = report.timeline_events
       /\ Len(d.timeline) = Len(calls.timeline)
       /\ \A e \in TimelineInputs :
            Count(d.timeline, e) = Count(calls.timeline, e)

\* One addition of each kind.
C6_Witness ==
  /\ ret.kind = "dict"
  /\ Len(ret.value.iocs) = 1 /\ Len(ret.value.affected_systems) = 1
  /\ ret.value.recommendations = <<<<"a", " ", "b">>>>
  /\ Len(ret.value.timeline) = 1
  /\ ret.value.iocs[1].type = "IP Address"

\* C7: incident_id and created_at are set at construction, a given value
\* kept as it is, and no call changes either afterwards.
C7_IdentityFixed ==
  /\ [][/\ report'.incident_id = report.incident_id
        /\ report'.created_at = report.created_at]_vars
  /\ [](/\ ctor.incident_id # <<>> => report.incident_id = ctor.incident_id
        /\ ctor.created_at # "" => report.created_at = ctor.created_at
        /\ report.incident_id # <<>> /\ report.created_at # "")

\* A given id and stamp, still there after four additions and a to_dict.
C7_Witness ==
  /\ ctor.incident_id = WellFormedId /\ report.incident_id = WellFormedId
  /\ ctor.created_at = "2024-01-01 00:00:00 UTC"
  /\ report.created_at = "2024-01-01 00:00:00 UTC"
  /\ NCalls = MaxCalls
  /\ ret.kind = "dict"

\* C8 as stated: however the report was constructed, incident_id matches
\* IR-<8 digits>-<4 upper-case hexadecimal characters>.
C8_IdAlwaysMatches == MatchesIdFormat(report.incident_id)

\* C8 amended: a report constructed with no incident_id, or an empty one, or
\* one that matches the format, has an incident_id that matches it in every
\* reachable state; any other given incident_id is kept as given.
C8_GeneratedIdMatches ==
  /\ (ctor.incident_id = <<>> \/ MatchesIdFormat(ctor.incident_id))
       => MatchesIdFormat(report.incident_id)
  /\ ctor.incident_id # <<>> => report.incident_id = ctor.incident_id

\* A generated id, its digest letters upper-cased.
C8_Witness ==
  /\ ctor.incident_id = <<>>
  /\ report.incident_id =
       <<"I", "R", "-", "2", "0", "2", "5", "0", "2", "1", "1", "-",
         "A", "3", "F", "7">>
  /\ NCalls > 0

\* What the four operations leave alone and keep, the recommendations apart.
C9_Frame ==
  /\ calls'.timeline # calls.timeline =>
       /\ OneMore(report.timeline_events, report'.timeline_events,
                  calls'.timeline[Len(calls'.timeline)])
       /\ report' = [report EXCEPT
                       !.timeline_events = report'.timeline_events]
  /\ calls'.iocs # calls.iocs =>
       /\ OneMore(report.iocs, report'.iocs, calls'.iocs[Len(calls'.iocs)])
       /\ report' = [report EXCEPT !.iocs = report'.iocs]
  /\ calls'.systems # calls.systems =>
       /\ OneMore(report.affected_systems, report'.affected_systems,
                  calls'.systems[Len(calls'.systems)])
       /\ report' = [report EXCEPT
                       !.affected_systems = report'.affected_systems]
  /\ calls'.recs # calls.recs =>
       report' = [report EXCEPT !.recommendations = report'.recommendations]
  /\ ret'.kind # "None" => report' = report

\* C9 as stated: every call of a mutation operation adds exactly one entity
\* to its own collection, keeps every entity already there and leaves the
\* other three collections unchanged.
C9_EveryCallAppends ==
  [][/\ C9_Frame
     /\ calls'.recs # calls.recs =>
          OneMore(report.recommendations, report'.recommendations,
                  Trimmed(calls'.recs[Len(calls'.recs)]))]_vars

\* C9 amended: every call of add_timeline_event, add_ioc and
\* add_affected_system, and every call of add_recommendation with a text that
\* is not empty or whitespace-only, adds exactly one entity to its own
\* collection; a call of add_recommendation with an empty or whitespace-only
\* text adds nothing. Every call keeps every entity already there and leaves
\* the other three collections unchanged.
C9_AcceptedCallAppends ==
  [][/\ C9_Frame
     /\ calls'.recs # calls.recs =>
          LET r == calls'.recs[Len(calls'.recs)]
          IN IF IsBlank(r)
             THEN report'.recommendations = report.recommendations
             ELSE OneMore(report.recommendations, report'.recommendations,
                          Trimmed(r))]_vars

\* Two systems, one IOC and a blank recommendation that added nothing.
C9_Witness ==
  /\ Len(report.affected_systems) = 2
  /\ Len(report.iocs) = 1
  /\ calls.recs = <<<<>>>>
  /\ report.recommendations = <<>>

====
